---- MODULE Spec2Model ----
(***************************************************************************)
(* fdk-aac-rs: the safe wrapper around the FDK AAC engine.                 *)
(*                                                                         *)
(* The model follows src/src/enc.rs (Encoder) and src/src/dec.rs (Decoder).*)
(* The engine itself is external: each engine call is an entry appended to *)
(* the log of calls the engine has seen, and its return values are chosen  *)
(* nondeterministically within the engine's documented contract            *)
(* (src/fdk-aac-sys/src/enc.rs).                                           *)
(*                                                                         *)
(* One behaviour follows one session, an Encoder or a Decoder: the wrapper *)
(* keeps no state outside a session value, so sessions do not interact.    *)
(***************************************************************************)
EXTENDS Integers, Sequences, FiniteSets, TLC

VARIABLES
    session,    \* "encoder" | "decoder" | "message": what this behaviour follows
    params,     \* the EncoderParams value passed to Encoder::new
    encPc,      \* position inside Encoder::new, then the Encoder's life
    encPtr,     \* EncoderHandle.ptr (NULL or a handle)
    encLog,     \* engine calls seen on the encoder side, in order
    encCall,    \* descriptors and arguments of the last Encoder::encode call
    encRet,     \* what the last Encoder operation returned to its caller
    decState,   \* "none" | "live" | "dropped"
    decHandle,  \* Decoder.handle (NULL or a handle)
    decLog,     \* engine calls seen on the decoder side, in order
    decCall,    \* arguments of the last Decoder operation's engine call
    decRet,     \* what the last Decoder operation returned to its caller
    nOps,       \* operations performed on the live session
    err,        \* an error value [codec, code] to be formatted
    shown,      \* the text Display/Debug obtained from message()
    feedPc,     \* position of a caller's fill / decode_frame loop
    feedLen,    \* length in bytes of the stream that caller feeds
    feedPos,    \* bytes of the stream the caller counts as consumed
    ring,       \* bytes waiting in the engine's internal buffer
    taken,      \* bytes of the stream the engine has taken in all
    frames,     \* frames the engine has decoded
    inFlight    \* per thread: the engine call it is inside, if any

vars == <<session, params, encPc, encPtr, encLog, encCall, encRet,
          decState, decHandle, decLog, decCall, decRet, nOps, err, shown,
          feedPc, feedLen, feedPos, ring, taken, frames, inFlight>>

encVars == <<params, encPc, encPtr, encLog, encCall, encRet>>
decVars == <<decState, decHandle, decLog, decCall, decRet>>
msgVars == <<err, shown>>
feedVars == <<feedPc, feedLen, feedPos, ring, taken, frames>>
thrVars == <<inFlight>>

-----------------------------------------------------------------------------
(* Bounds *)

\* Width of c_int / c_uint / i32 / u32 in bits (32 in the build), scaled so
\* that the model checker can enumerate lengths on both sides of every limit.
\* usize is twice as wide, as on a 64-bit target.
CIntBits == 4

\* Operations performed on a live session before it is dropped.
MaxOps == 1

\* Status codes formatted by message(): 0 .. MaxCode, which covers every
\* documented encoder and decoder code (the largest is 0x8003).
MaxCode == 32780

\* Bytes in one frame of the stream fed to a Decoder.
FrameLen == 3

\* Engine calls begun by the threads that share sessions.
MaxThreadCalls == 3

-----------------------------------------------------------------------------
(* Integer types *)

UsizeBits == 2 * CIntBits
I32Max    == 2^(CIntBits - 1) - 1
U32Max    == 2^CIntBits - 1
UsizeMax  == 2^UsizeBits - 1

Min(a, b) == IF a <= b THEN a ELSE b
Max(a, b) == IF a >= b THEN a ELSE b

\* `x as c_uint` for x: usize -- keeps the low bits
AsCUint(x) == x % (2^CIntBits)

\* `x as c_int` / `x as i32` for x: usize -- keeps the low bits, two's complement
AsCInt(x) ==
    LET m == x % (2^CIntBits)
    IN  IF m > I32Max THEN m - 2^CIntBits ELSE m

\* `x as usize` for x: c_int -- sign-extends
IntAsUsize(x) == x % (2^UsizeBits)

\* `x as usize` for x: c_uint -- zero-extends
UintAsUsize(x) == x

\* usize subtraction as a release build computes it
UsizeSub(a, b) == (a - b) % (2^UsizeBits)

NULL   == 0
HANDLE == 1

\* no thread is inside an engine call
NoThreads == <<>>

-----------------------------------------------------------------------------
(* Encoder status codes: fdk-aac-sys Error *)

AACENC_OK                    == 0
AACENC_INVALID_HANDLE        == 32
AACENC_MEMORY_ERROR          == 33
AACENC_UNSUPPORTED_PARAMETER == 34
AACENC_INVALID_CONFIG        == 35
AACENC_INIT_ERROR            == 64
AACENC_INIT_AAC_ERROR        == 65
AACENC_INIT_SBR_ERROR        == 66
AACENC_INIT_TP_ERROR         == 67
AACENC_INIT_META_ERROR       == 68
AACENC_INIT_MPS_ERROR        == 69
AACENC_ENCODE_ERROR          == 96
AACENC_ENCODE_EOF            == 128

\* the arms of the match in EncoderError::message, fallback arm aside
EncoderMessages ==
       (AACENC_OK :> "Ok")
    @@ (AACENC_INVALID_HANDLE :> "Handle passed to function call was invalid.")
    @@ (AACENC_MEMORY_ERROR :> "Memory allocation failed.")
    @@ (AACENC_UNSUPPORTED_PARAMETER :> "Parameter not available.")
    @@ (AACENC_INVALID_CONFIG :> "Configuration not provided.")
    @@ (AACENC_INIT_ERROR :> "General initialization error.")
    @@ (AACENC_INIT_AAC_ERROR :> "AAC library initialization error.")
    @@ (AACENC_INIT_SBR_ERROR :> "SBR library initialization error.")
    @@ (AACENC_INIT_TP_ERROR :> "Transport library initialization error.")
    @@ (AACENC_INIT_META_ERROR :> "Meta data library initialization error.")
    @@ (AACENC_INIT_MPS_ERROR :> "MPS library initialization error.")
    @@ (AACENC_ENCODE_ERROR :> "The encoding process was interrupted by an unexpected error.")
    @@ (AACENC_ENCODE_EOF :> "End of file reached.")

\* EncoderError::message with an empty fallback text
EncoderMessageEmptyFallback(code) ==
    IF code \in DOMAIN EncoderMessages THEN EncoderMessages[code] ELSE ""

\* EncoderError::message
EncoderMessage(code) ==
    IF code \in DOMAIN EncoderMessages THEN EncoderMessages[code] ELSE "Unknown error"

\* the codes EncoderError::message names
EncoderCodes == DOMAIN EncoderMessages

\* check that also lets the end-of-file status through as success
CheckEofIsOk(e) ==
    IF e = AACENC_OK \/ e = AACENC_ENCODE_EOF
    THEN [ok |-> TRUE, code |-> AACENC_OK]
    ELSE [ok |-> FALSE, code |-> e]

\* check (enc.rs): a status code becomes Ok(()) or Err(EncoderError(code))
EncCheck(e) ==
    IF e = AACENC_OK
    THEN [ok |-> TRUE, code |-> AACENC_OK]
    ELSE [ok |-> FALSE, code |-> e]

-----------------------------------------------------------------------------
(* Decoder status codes: AAC_DECODER_ERROR, with the values of the engine's   *)
(* public header, which the bindings keep unchanged                          *)

AAC_DEC_OK                            == 0
AAC_DEC_OUT_OF_MEMORY                 == 2
AAC_DEC_UNKNOWN                       == 5
aac_dec_sync_error_start              == 4096
AAC_DEC_TRANSPORT_SYNC_ERROR          == 4097
AAC_DEC_NOT_ENOUGH_BITS               == 4098
aac_dec_init_error_start              == 8192
AAC_DEC_INVALID_HANDLE                == 8193
AAC_DEC_UNSUPPORTED_AOT               == 8194
AAC_DEC_UNSUPPORTED_FORMAT            == 8195
AAC_DEC_UNSUPPORTED_ER_FORMAT         == 8196
AAC_DEC_UNSUPPORTED_EPCONFIG          == 8197
AAC_DEC_UNSUPPORTED_MULTILAYER        == 8198
AAC_DEC_UNSUPPORTED_CHANNELCONFIG     == 8199
AAC_DEC_UNSUPPORTED_SAMPLINGRATE      == 8200
AAC_DEC_INVALID_SBR_CONFIG            == 8201
AAC_DEC_SET_PARAM_FAIL                == 8202
AAC_DEC_NEED_TO_RESTART               == 8203
AAC_DEC_OUTPUT_BUFFER_TOO_SMALL       == 8204
aac_dec_decode_error_start            == 16384
AAC_DEC_TRANSPORT_ERROR               == 16385
AAC_DEC_PARSE_ERROR                   == 16386
AAC_DEC_UNSUPPORTED_EXTENSION_PAYLOAD == 16387
AAC_DEC_DECODE_FRAME_ERROR            == 16388
AAC_DEC_CRC_ERROR                     == 16389
AAC_DEC_INVALID_CODE_BOOK             == 16390
AAC_DEC_UNSUPPORTED_PREDICTION        == 16391
AAC_DEC_UNSUPPORTED_CCE               == 16392
AAC_DEC_UNSUPPORTED_LFE               == 16393
AAC_DEC_UNSUPPORTED_GAIN_CONTROL_DATA == 16394
AAC_DEC_UNSUPPORTED_SBA               == 16395
AAC_DEC_TNS_READ_ERROR                == 16396
AAC_DEC_RVLC_ERROR                    == 16397
aac_dec_anc_data_error_start          == 32768
AAC_DEC_ANC_DATA_ERROR                == 32769
AAC_DEC_TOO_SMALL_ANC_BUFFER          == 32770
AAC_DEC_TOO_MANY_ANC_ELEMENTS         == 32771

\* the arms of the match in DecoderError::message, fallback arm aside
DecoderMessages ==
       (AAC_DEC_OK :> "No error occurred. Output buffer is valid and error free.")
    @@ (AAC_DEC_OUT_OF_MEMORY :> "Heap returned NULL pointer. Output buffer is invalid.")
    @@ (AAC_DEC_UNKNOWN :> "Error condition is of unknown reason, or from a another module. Output buffer is invalid.")
    @@ (aac_dec_sync_error_start :> "Synchronization errors. Output buffer is invalid.")
    @@ (AAC_DEC_TRANSPORT_SYNC_ERROR :> "The transport decoder had synchronization problems. Do not exit decoding. Just feed new bitstream data.")
    @@ (AAC_DEC_NOT_ENOUGH_BITS :> "The input buffer ran out of bits.")
    @@ (aac_dec_init_error_start :> "Initialization errors. Output buffer is invalid.")
    @@ (AAC_DEC_INVALID_HANDLE :> "The handle passed to the function call was invalid (NULL).")
    @@ (AAC_DEC_UNSUPPORTED_AOT :> "The AOT found in the configuration is not supported.")
    @@ (AAC_DEC_UNSUPPORTED_FORMAT :> "The bitstream format is not supported. ")
    @@ (AAC_DEC_UNSUPPORTED_ER_FORMAT :> "The error resilience tool format is not supported.")
    @@ (AAC_DEC_UNSUPPORTED_EPCONFIG :> "The error protection format is not supported.")
    @@ (AAC_DEC_UNSUPPORTED_MULTILAYER :> "More than one layer for AAC scalable is not supported.")
    @@ (AAC_DEC_UNSUPPORTED_CHANNELCONFIG :> "The channel configuration (either number or arrangement) is not supported.")
    @@ (AAC_DEC_UNSUPPORTED_SAMPLINGRATE :> "The sample rate specified in the configuration is not supported.")
    @@ (AAC_DEC_INVALID_SBR_CONFIG :> "The SBR configuration is not supported.")
    @@ (AAC_DEC_SET_PARAM_FAIL :> "The parameter could not be set. Either the value was out of range or the parameter does  not exist.")
    @@ (AAC_DEC_NEED_TO_RESTART :> "The decoder needs to be restarted, since the required configuration change cannot be performed.")
    @@ (AAC_DEC_OUTPUT_BUFFER_TOO_SMALL :> "The provided output buffer is too small.")
    @@ (aac_dec_decode_error_start :> "Decode errors. Output buffer is valid but concealed.")
    @@ (AAC_DEC_TRANSPORT_ERROR :> "The transport decoder encountered an unexpected error.")
    @@ (AAC_DEC_PARSE_ERROR :> "Error while parsing the bitstream. Most probably it is corrupted, or the system crashed.")
    @@ (AAC_DEC_UNSUPPORTED_EXTENSION_PAYLOAD :> "Error while parsing the extension payload of the bitstream. The extension payload type found is not supported.")
    @@ (AAC_DEC_DECODE_FRAME_ERROR :> "The parsed bitstream value is out of range. Most probably the bitstream is corrupt, or the system crashed.")
    @@ (AAC_DEC_CRC_ERROR :> "The embedded CRC did not match.")
    @@ (AAC_DEC_INVALID_CODE_BOOK :> "An invalid codebook was signaled. Most probably the bitstream is corrupt, or the system  crashed.")
    @@ (AAC_DEC_UNSUPPORTED_PREDICTION :> "Predictor found, but not supported in the AAC Low Complexity profile. Most probably the bitstream is corrupt, or has a wrong format.")
    @@ (AAC_DEC_UNSUPPORTED_CCE :> "A CCE element was found which is not supported. Most probably the bitstream is corrupt, or has a wrong format.")
    @@ (AAC_DEC_UNSUPPORTED_LFE :> "A LFE element was found which is not supported. Most probably the bitstream is corrupt, or has a wrong format.")
    @@ (AAC_DEC_UNSUPPORTED_GAIN_CONTROL_DATA :> "Gain control data found but not supported. Most probably the bitstream is corrupt, or has a wrong format.")
    @@ (AAC_DEC_UNSUPPORTED_SBA :> "SBA found, but currently not supported in the BSAC profile.")
    @@ (AAC_DEC_TNS_READ_ERROR :> "Error while reading TNS data. Most probably the bitstream is corrupt or the system crashed.")
    @@ (AAC_DEC_RVLC_ERROR :> "Error while decoding error resilient data.")
    @@ (aac_dec_anc_data_error_start :> "Ancillary data errors. Output buffer is valid.")
    @@ (AAC_DEC_ANC_DATA_ERROR :> "Non severe error concerning the ancillary data handling.")
    @@ (AAC_DEC_TOO_SMALL_ANC_BUFFER :> "The registered ancillary data buffer is too small to receive the parsed data.")
    @@ (AAC_DEC_TOO_MANY_ANC_ELEMENTS :> "More than the allowed number of ancillary data elements should be written to buffer.")

\* the codes DecoderError::message names
DecoderCodes == DOMAIN DecoderMessages

\* DecoderError::message
DecoderMessage(code) ==
    IF code \in DOMAIN DecoderMessages THEN DecoderMessages[code] ELSE "Unknown error"

\* check that reports every failure as AAC_DEC_UNKNOWN
DecCheckLosesCode(e) ==
    IF e = AAC_DEC_OK
    THEN [ok |-> TRUE, code |-> AAC_DEC_OK]
    ELSE [ok |-> FALSE, code |-> AAC_DEC_UNKNOWN]

\* check (dec.rs): a status code becomes Ok(()) or Err(DecoderError(code))
DecCheck(e) ==
    IF e = AAC_DEC_OK
    THEN [ok |-> TRUE, code |-> AAC_DEC_OK]
    ELSE [ok |-> FALSE, code |-> e]

-----------------------------------------------------------------------------
(* Encoder parameters *)

AudioObjectTypes ==
    { "Mpeg4LowComplexity", "Mpeg4HeAac", "Mpeg4HeAacV2", "Mpeg4LowDelay",
      "Mpeg4EnhancedLowDelay", "Mpeg2Aac", "Mpeg2HeAac" }

VbrTiers == { "VbrVeryLow", "VbrLow", "VbrMedium", "VbrHigh", "VbrVeryHigh" }

\* bit rates tried for BitRate::Cbr(n), sample rates tried for sample_rate
CbrRates    == { 64000, 128000 }
SampleRates == { 44100, 48000 }

BitRates ==
    { [kind |-> "Cbr", rate |-> n] : n \in CbrRates }
        \cup { [kind |-> k, rate |-> 0] : k \in VbrTiers }

EncoderParamsSet ==
    [ bit_rate : BitRates, sample_rate : SampleRates,
      transport : { "Adts", "Raw" }, channels : { "Mono", "Stereo" },
      audio_object_type : AudioObjectTypes ]

NoParams == [ bit_rate |-> [kind |-> "none", rate |-> 0], sample_rate |-> 0,
              transport |-> "none", channels |-> "none",
              audio_object_type |-> "none" ]

\* the `aot` match of Encoder::new
AotValue(aot) ==
    CASE aot = "Mpeg4LowComplexity"    -> 2
      [] aot = "Mpeg4HeAac"            -> 5
      [] aot = "Mpeg4HeAacV2"          -> 29
      [] aot = "Mpeg4LowDelay"         -> 23
      [] aot = "Mpeg4EnhancedLowDelay" -> 39
      [] aot = "Mpeg2Aac"              -> 129
      [] aot = "Mpeg2HeAac"            -> 132

\* the `bitrate_mode` match with the tiers numbered from 0
BitrateModeFromZero(bit_rate) ==
    CASE bit_rate.kind = "Cbr"         -> 0
      [] bit_rate.kind = "VbrVeryLow"  -> 0
      [] bit_rate.kind = "VbrLow"      -> 1
      [] bit_rate.kind = "VbrMedium"   -> 2
      [] bit_rate.kind = "VbrHigh"     -> 3
      [] bit_rate.kind = "VbrVeryHigh" -> 4

\* the value of the `bitrate_mode` match of Encoder::new
BitrateMode(bit_rate) ==
    CASE bit_rate.kind = "Cbr"         -> 0
      [] bit_rate.kind = "VbrVeryLow"  -> 1
      [] bit_rate.kind = "VbrLow"      -> 2
      [] bit_rate.kind = "VbrMedium"   -> 3
      [] bit_rate.kind = "VbrHigh"     -> 4
      [] bit_rate.kind = "VbrVeryHigh" -> 5

TransmuxValue(transport) == IF transport = "Adts" THEN 2 ELSE 0

ChannelModeValue(channels) == IF channels = "Mono" THEN 1 ELSE 2

\* The parameter-set calls of Encoder::new.  A step is named after the
\* parameter it sets; "prime" is the encode call with null arguments.
ConfigSteps ==
    { "AOT", "BITRATE", "BITRATEMODE", "SAMPLERATE", "TRANSMUX", "SBR_MODE",
      "CHANNELMODE" }

\* the value Encoder::new passes to aacEncoder_SetParam at a step
StepValue(step, p) ==
    CASE step = "AOT"         -> AotValue(p.audio_object_type)
      [] step = "BITRATE"     -> p.bit_rate.rate
      [] step = "BITRATEMODE" -> BitrateMode(p.bit_rate)
      [] step = "SAMPLERATE"  -> p.sample_rate
      [] step = "TRANSMUX"    -> TransmuxValue(p.transport)
      [] step = "SBR_MODE"    -> 0
      [] step = "CHANNELMODE" -> ChannelModeValue(p.channels)

\* Encoder::new with the channel mode set before the sample rate
StepAfterChannelsFirst(step, p) ==
    CASE step = "AOT"         -> IF p.bit_rate.kind = "Cbr" THEN "BITRATE"
                                 ELSE "BITRATEMODE"
      [] step = "BITRATE"     -> "BITRATEMODE"
      [] step = "BITRATEMODE" -> "CHANNELMODE"
      [] step = "CHANNELMODE" -> "TRANSMUX"
      [] step = "TRANSMUX"    -> "SBR_MODE"
      [] step = "SBR_MODE"    -> "SAMPLERATE"
      [] step = "SAMPLERATE"  -> "prime"

\* the statement Encoder::new goes on to when the check of a step passes
StepAfter(step, p) ==
    CASE step = "AOT"         -> IF p.bit_rate.kind = "Cbr" THEN "BITRATE"
                                 ELSE "BITRATEMODE"
      [] step = "BITRATE"     -> "BITRATEMODE"
      [] step = "BITRATEMODE" -> "SAMPLERATE"
      [] step = "SAMPLERATE"  -> "TRANSMUX"
      [] step = "TRANSMUX"    -> "SBR_MODE"
      [] step = "SBR_MODE"    -> "CHANNELMODE"
      [] step = "CHANNELMODE" -> "prime"

-----------------------------------------------------------------------------
(* The engine, encoder side *)

\* status codes the engine answers with: every documented code and one that
\* is not documented
UndocumentedStatus ==
    CHOOSE c \in 1 .. MaxCode : c \notin EncoderCodes \cup DecoderCodes
EncStatuses == EncoderCodes \cup { UndocumentedStatus }

\* the codes tried on the operations of a live Encoder
EncOpStatuses ==
    { AACENC_OK, AACENC_INVALID_HANDLE, AACENC_ENCODE_ERROR, AACENC_ENCODE_EOF,
      UndocumentedStatus }

\* aacEncClose's status, which Drop ignores
CloseStatuses == { AACENC_OK, AACENC_INVALID_HANDLE }

Call(fn, param, value, ret) ==
    [fn |-> fn, param |-> param, value |-> value, ret |-> ret]

\* AACENC_BufferIdentifier
IN_AUDIO_DATA      == 0
OUT_BITSTREAM_DATA == 3

NullDesc == [ numBufs |-> 0, bufs |-> <<>>, bufferIdentifiers |-> <<>>,
              bufSizes |-> <<>>, bufElSizes |-> <<>> ]

NoCall == [ made |-> FALSE, status |-> 0, N |-> 0, L |-> 0, inDesc |-> NullDesc,
            outDesc |-> NullDesc,
            inArgs |-> [numInSamples |-> 0, numAncBytes |-> 0],
            outArgs |-> [numOutBytes |-> 0, numInSamples |-> 0] ]

\* What aacEncEncode leaves in AACENC_OutArgs.  On success the bytes generated
\* fit the declared size of the output buffer and the samples consumed are
\* among the samples declared valid; otherwise the zeroed struct is untouched.
EngineOutArgs(status, outDesc, inArgs) ==
    IF status = AACENC_OK
    THEN [ numOutBytes  : { 0, Max(outDesc.bufSizes[1], 0) },
           numInSamples : { 0, Max(inArgs.numInSamples, 0) } ]
    ELSE { [numOutBytes |-> 0, numInSamples |-> 0] }

-----------------------------------------------------------------------------
(* Encoder *)

NoRet == [ op |-> "none", ok |-> TRUE, code |-> 0,
           input_consumed |-> 0, output_size |-> 0 ]

RetOk(op)        == [NoRet EXCEPT !.op = op]
RetErr(op, code) == [NoRet EXCEPT !.op = op, !.ok = FALSE, !.code = code]

\* Drop for EncoderHandle that leaks the handle
DropKeepsHandle(log, status) == log

\* Drop for EncoderHandle: aacEncClose on the handle, its status ignored
DropEncoderHandle(log, status) ==
    Append(log, Call("aacEncClose", "", 0, status))

\* EncoderHandle::alloc, the first statement of Encoder::new.  On failure the
\* `?` returns before an EncoderHandle exists, so nothing is dropped.
EncoderNewAlloc ==
    /\ session = "encoder"
    /\ encPc = "alloc"
    /\ \E c \in EncStatuses :
         /\ encLog' = Append(encLog, Call("aacEncOpen", "", 2, c))
         /\ IF EncCheck(c).ok
            THEN /\ encPtr' = HANDLE
                 /\ encPc' = "AOT"
                 /\ encRet' = encRet
            ELSE /\ encPtr' = NULL
                 /\ encPc' = "failed"
                 /\ encRet' = RetErr("new", EncCheck(c).code)
    /\ UNCHANGED <<session, params, encCall, nOps>>
    /\ UNCHANGED decVars
    /\ UNCHANGED msgVars
    /\ UNCHANGED <<feedVars, thrVars>>

\* One `check(sys::aacEncoder_SetParam(..))?` of Encoder::new.  When the check
\* fails the `?` returns the error and the local `handle` is dropped.
EncoderNewSetParam ==
    /\ session = "encoder"
    /\ encPc \in ConfigSteps
    /\ \E c \in EncStatuses :
         LET called == Append(encLog,
                 Call("aacEncoder_SetParam", encPc, StepValue(encPc, params), c))
         IN  IF EncCheck(c).ok
             THEN /\ encLog' = called
                  /\ encPc' = StepAfter(encPc, params)
                  /\ encRet' = encRet
             ELSE /\ \E cl \in CloseStatuses :
                        encLog' = DropEncoderHandle(called, cl)
                  /\ encPc' = "failed"
                  /\ encRet' = RetErr("new", EncCheck(c).code)
    /\ UNCHANGED <<session, params, encPtr, encCall, nOps>>
    /\ UNCHANGED decVars
    /\ UNCHANGED msgVars
    /\ UNCHANGED <<feedVars, thrVars>>

\* The priming call: aacEncEncode with null descriptors and arguments, then
\* Ok(Encoder { handle }).
EncoderNewPrime ==
    /\ session = "encoder"
    /\ encPc = "prime"
    /\ \E c \in EncStatuses :
         LET called == Append(encLog, Call("aacEncEncode", "null", 0, c))
         IN  IF EncCheck(c).ok
             THEN /\ encLog' = called
                  /\ encPc' = "live"
                  /\ encRet' = RetOk("new")
             ELSE /\ \E cl \in CloseStatuses :
                        encLog' = DropEncoderHandle(called, cl)
                  /\ encPc' = "failed"
                  /\ encRet' = RetErr("new", EncCheck(c).code)
    /\ UNCHANGED <<session, params, encPtr, encCall, nOps>>
    /\ UNCHANGED decVars
    /\ UNCHANGED msgVars
    /\ UNCHANGED <<feedVars, thrVars>>

\* Encoder::info
EncoderInfo ==
    /\ session = "encoder"
    /\ encPc = "live"
    /\ nOps < MaxOps
    /\ \E c \in EncOpStatuses :
         /\ encLog' = Append(encLog, Call("aacEncInfo", "", 0, c))
         /\ encRet' = IF EncCheck(c).ok THEN RetOk("info")
                      ELSE RetErr("info", EncCheck(c).code)
    /\ nOps' = nOps + 1
    /\ UNCHANGED <<session, params, encPc, encPtr, encCall>>
    /\ UNCHANGED decVars
    /\ UNCHANGED msgVars
    /\ UNCHANGED <<feedVars, thrVars>>

\* `output.len() as c_int` replaced by the largest c_int
OutputBufSizeMax(L) == I32Max

\* output_buf_size of Encoder::encode: `output.len() as c_int`
OutputBufSize(L) == AsCInt(L)

\* input_len of Encoder::encode without the clamp: `input.len() as i32`
InputLenUnclamped(N) == AsCInt(N)

\* input_len of Encoder::encode: `cmp::min(i32::max_value() as usize, input.len()) as i32`
InputLen(N) == AsCInt(Min(I32Max, N))

\* input_desc with the element size of a byte buffer
InputDescByteElements(input_len) ==
    [ numBufs |-> 1, bufs |-> <<"input">>,
      bufferIdentifiers |-> <<IN_AUDIO_DATA>>,
      bufSizes |-> <<input_len>>,
      bufElSizes |-> <<1>> ]

\* input_desc of Encoder::encode: one entry, the input slice as audio data
\* with elements of size_of::<i16>() bytes
InputDesc(input_len) ==
    [ numBufs |-> 1, bufs |-> <<"input">>,
      bufferIdentifiers |-> <<IN_AUDIO_DATA>>,
      bufSizes |-> <<input_len>>,
      bufElSizes |-> <<2>> ]

\* output_desc of Encoder::encode: one entry, the output slice as bitstream
\* data with elements of size_of::<u8>() bytes
OutputDesc(output_buf_size) ==
    [ numBufs |-> 1, bufs |-> <<"output">>,
      bufferIdentifiers |-> <<OUT_BITSTREAM_DATA>>,
      bufSizes |-> <<output_buf_size>>,
      bufElSizes |-> <<1>> ]

\* Encoder::encode on an input slice of N samples and an output slice of
\* L bytes
EncoderEncode(lens) ==
    /\ session = "encoder"
    /\ encPc = "live"
    /\ nOps < MaxOps
    /\ \E N \in lens, L \in lens, c \in EncOpStatuses :
         LET input_len   == InputLen(N)
             input_desc  == InputDesc(input_len)
             output_desc == OutputDesc(OutputBufSize(L))
             in_args     == [numInSamples |-> input_len, numAncBytes |-> 0]
         IN  \E out_args \in EngineOutArgs(c, output_desc, in_args) :
               /\ encLog' = Append(encLog, Call("aacEncEncode", "bufs", 0, c))
               /\ encCall' = [ made |-> TRUE, status |-> c, N |-> N, L |-> L,
                               inDesc |-> input_desc, outDesc |-> output_desc,
                               inArgs |-> in_args, outArgs |-> out_args ]
               /\ encRet' =
                    IF EncCheck(c).ok
                    THEN [ RetOk("encode") EXCEPT
                             !.output_size = IntAsUsize(out_args.numOutBytes),
                             !.input_consumed = IntAsUsize(out_args.numInSamples) ]
                    ELSE RetErr("encode", EncCheck(c).code)
    /\ nOps' = nOps + 1
    /\ UNCHANGED <<session, params, encPc, encPtr>>
    /\ UNCHANGED decVars
    /\ UNCHANGED msgVars
    /\ UNCHANGED <<feedVars, thrVars>>

\* The Encoder value goes out of scope: its EncoderHandle is dropped.
EncoderDrop ==
    /\ session = "encoder"
    /\ encPc = "live"
    /\ \E cl \in CloseStatuses :
         encLog' = DropEncoderHandle(encLog, cl)
    /\ encPc' = "dropped"
    /\ UNCHANGED <<session, params, encPtr, encCall, encRet, nOps>>
    /\ UNCHANGED decVars
    /\ UNCHANGED msgVars
    /\ UNCHANGED <<feedVars, thrVars>>

-----------------------------------------------------------------------------
(* Decoder *)

\* status codes tried on the decoder's engine calls
DecStatuses ==
    { AAC_DEC_OK, AAC_DEC_TRANSPORT_SYNC_ERROR, AAC_DEC_NOT_ENOUGH_BITS,
      AAC_DEC_INVALID_HANDLE, AAC_DEC_OUTPUT_BUFFER_TOO_SMALL,
      UndocumentedStatus }

\* slice lengths and counts (usize) on both sides of the c_int and c_uint
\* limits
Lens ==
    { 0, 1, 2, I32Max, I32Max + 1, U32Max, U32Max + 1, U32Max + 3, UsizeMax }

\* slice lengths tried where the lengths are not what is examined
FewLens == { 0, 2 }

NoDecCall == [ op |-> "none", N |-> 0, handed |-> 0, bytes_valid |-> 0 ]

NoDecRet == [ op |-> "none", ok |-> TRUE, code |-> 0, value |-> 0 ]

DecRetOk(op, value) == [NoDecRet EXCEPT !.op = op, !.value = value]
DecRetErr(op, code) == [NoDecRet EXCEPT !.op = op, !.ok = FALSE, !.code = code]

\* Decoder::new: aacDecoder_Open's handle, null or not, is wrapped as it is
DecoderNew ==
    /\ session = "decoder"
    /\ decState = "none"
    /\ \E transport \in { "Raw", "Adts" }, h \in { NULL, HANDLE } :
         /\ decLog' = Append(decLog,
                Call("aacDecoder_Open",
                     IF transport = "Raw" THEN "TT_MP4_RAW" ELSE "TT_MP4_ADTS",
                     1, h))
         /\ decHandle' = h
    /\ decState' = "live"
    /\ decRet' = DecRetOk("new", 0)
    /\ UNCHANGED <<session, decCall, nOps>>
    /\ UNCHANGED encVars
    /\ UNCHANGED msgVars
    /\ UNCHANGED <<feedVars, thrVars>>

\* Decoder::config_raw on a slice of N bytes
DecoderConfigRaw ==
    /\ session = "decoder"
    /\ decState = "live"
    /\ nOps < MaxOps
    /\ \E N \in Lens, c \in DecStatuses :
         LET asc_len == AsCUint(N)
         IN  /\ decLog' = Append(decLog, Call("aacDecoder_ConfigRaw", "", asc_len, c))
             /\ decCall' = [ op |-> "config_raw", N |-> N, handed |-> asc_len,
                             bytes_valid |-> 0 ]
             /\ decRet' = IF DecCheck(c).ok THEN DecRetOk("config_raw", 0)
                          ELSE DecRetErr("config_raw", DecCheck(c).code)
    /\ nOps' = nOps + 1
    /\ UNCHANGED <<session, decState, decHandle>>
    /\ UNCHANGED encVars
    /\ UNCHANGED msgVars
    /\ UNCHANGED <<feedVars, thrVars>>

\* Decoder::set_min_output_channels and Decoder::set_max_output_channels
DecoderSetOutputChannels ==
    /\ session = "decoder"
    /\ decState = "live"
    /\ nOps < MaxOps
    /\ \E which \in { "min", "max" }, channels \in Lens, c \in DecStatuses :
         LET op    == IF which = "min" THEN "set_min_output_channels"
                      ELSE "set_max_output_channels"
             param == IF which = "min" THEN "AAC_PCM_MIN_OUTPUT_CHANNELS"
                      ELSE "AAC_PCM_MAX_OUTPUT_CHANNELS"
         IN  /\ decLog' = Append(decLog,
                    Call("aacDecoder_SetParam", param, AsCInt(channels), c))
             /\ decCall' = [ op |-> op, N |-> channels,
                             handed |-> AsCInt(channels), bytes_valid |-> 0 ]
             /\ decRet' = IF DecCheck(c).ok THEN DecRetOk(op, 0)
                          ELSE DecRetErr(op, DecCheck(c).code)
    /\ nOps' = nOps + 1
    /\ UNCHANGED <<session, decState, decHandle>>
    /\ UNCHANGED encVars
    /\ UNCHANGED msgVars
    /\ UNCHANGED <<feedVars, thrVars>>

\* What aacDecoder_Fill leaves in bytesValid: the bytes of the buffer it was
\* handed that it did not take.
EngineBytesValid(data_len) == { 0, data_len - (data_len \div 2), data_len }

\* data_len of Decoder::fill: `data.len() as c_uint`
FillHanded(N) == AsCUint(N)

\* the value of Decoder::fill: `data.len() - bytes_valid as usize`
FillResult(N, bytes_valid) == UsizeSub(N, UintAsUsize(bytes_valid))

\* Decoder::fill on a slice of N bytes
DecoderFill ==
    /\ session = "decoder"
    /\ decState = "live"
    /\ nOps < MaxOps
    /\ \E N \in Lens, c \in DecStatuses :
         LET data_len == FillHanded(N)
         IN  \E bytes_valid \in EngineBytesValid(data_len) :
               /\ decLog' = Append(decLog, Call("aacDecoder_Fill", "", data_len, c))
               /\ decCall' = [ op |-> "fill", N |-> N, handed |-> data_len,
                               bytes_valid |-> bytes_valid ]
               /\ decRet' =
                    IF DecCheck(c).ok
                    THEN DecRetOk("fill", FillResult(N, bytes_valid))
                    ELSE DecRetErr("fill", DecCheck(c).code)
    /\ nOps' = nOps + 1
    /\ UNCHANGED <<session, decState, decHandle>>
    /\ UNCHANGED encVars
    /\ UNCHANGED msgVars
    /\ UNCHANGED <<feedVars, thrVars>>

\* Decoder::decode_frame on a pcm slice of N samples
DecoderDecodeFrame ==
    /\ session = "decoder"
    /\ decState = "live"
    /\ nOps < MaxOps
    /\ \E N \in Lens, c \in DecStatuses :
         /\ decLog' = Append(decLog, Call("aacDecoder_DecodeFrame", "", AsCInt(N), c))
         /\ decCall' = [ op |-> "decode_frame", N |-> N, handed |-> AsCInt(N),
                         bytes_valid |-> 0 ]
         /\ decRet' = IF DecCheck(c).ok THEN DecRetOk("decode_frame", 0)
                      ELSE DecRetErr("decode_frame", DecCheck(c).code)
    /\ nOps' = nOps + 1
    /\ UNCHANGED <<session, decState, decHandle>>
    /\ UNCHANGED encVars
    /\ UNCHANGED msgVars
    /\ UNCHANGED <<feedVars, thrVars>>

\* Drop for Decoder that closes the handle twice
DropDecoderTwice(log, handle) ==
    Append(Append(log, Call("aacDecoder_Close", "", handle, 0)),
           Call("aacDecoder_Close", "", handle, 0))

\* Drop for Decoder: aacDecoder_Close on the handle
DropDecoder(log, handle) ==
    Append(log, Call("aacDecoder_Close", "", handle, 0))

\* The Decoder value goes out of scope.
DecoderDrop ==
    /\ session = "decoder"
    /\ decState = "live"
    /\ decLog' = DropDecoder(decLog, decHandle)
    /\ decState' = "dropped"
    /\ UNCHANGED <<session, decHandle, decCall, decRet, nOps>>
    /\ UNCHANGED encVars
    /\ UNCHANGED msgVars
    /\ UNCHANGED <<feedVars, thrVars>>

-----------------------------------------------------------------------------
(* Display and Debug of the error types *)

NoText == "<not formatted>"

\* Display for EncoderError / DecoderError: writes self.message()
DisplayError ==
    /\ session = "message"
    /\ shown = NoText
    /\ shown' = IF err.codec = "encoder" THEN EncoderMessage(err.code)
                ELSE DecoderMessage(err.code)
    /\ UNCHANGED <<session, err, nOps>>
    /\ UNCHANGED encVars
    /\ UNCHANGED decVars
    /\ UNCHANGED <<feedVars, thrVars>>

-----------------------------------------------------------------------------
(* Specifications *)

InitSession ==
    /\ encPc = "alloc"
    /\ encPtr = NULL
    /\ encLog = <<>>
    /\ encCall = NoCall
    /\ encRet = NoRet
    /\ decState = "none"
    /\ decHandle = NULL
    /\ decLog = <<>>
    /\ decCall = NoDecCall
    /\ decRet = NoDecRet
    /\ nOps = 0
    /\ shown = NoText
    /\ feedPc = "idle"
    /\ feedLen = 0
    /\ feedPos = 0
    /\ ring = 0
    /\ taken = 0
    /\ frames = 0
    /\ inFlight = NoThreads

\* A caller about to construct an Encoder with any parameters, or a Decoder.
Init ==
    /\ session \in { "encoder", "decoder" }
    /\ params \in IF session = "encoder" THEN EncoderParamsSet ELSE { NoParams }
    /\ err = [codec |-> "none", code |-> 0]
    /\ InitSession

Next ==
    \/ EncoderNewAlloc
    \/ EncoderNewSetParam
    \/ EncoderNewPrime
    \/ EncoderInfo
    \/ EncoderEncode(FewLens)
    \/ EncoderDrop
    \/ DecoderNew
    \/ DecoderConfigRaw
    \/ DecoderSetOutputChannels
    \/ DecoderFill
    \/ DecoderDecodeFrame
    \/ DecoderDrop

Spec == Init /\ [][Next]_vars

\* An Encoder with one constant-rate and one variable-rate configuration,
\* encoding slices of every length of Lens.
EncodeParamsSet ==
    { [ bit_rate |-> [kind |-> "Cbr", rate |-> 64000], sample_rate |-> 44100,
        transport |-> "Adts", channels |-> "Stereo",
        audio_object_type |-> "Mpeg4LowComplexity" ],
      [ bit_rate |-> [kind |-> "VbrMedium", rate |-> 0], sample_rate |-> 48000,
        transport |-> "Raw", channels |-> "Mono",
        audio_object_type |-> "Mpeg4LowDelay" ] }

InitEncode ==
    /\ session = "encoder"
    /\ params \in EncodeParamsSet
    /\ err = [codec |-> "none", code |-> 0]
    /\ InitSession

NextEncode ==
    \/ EncoderNewAlloc
    \/ EncoderNewSetParam
    \/ EncoderNewPrime
    \/ EncoderInfo
    \/ EncoderEncode(Lens)
    \/ EncoderDrop

SpecEncode == InitEncode /\ [][NextEncode]_vars

\* An error value of either codec with any status code, formatted once.
InitMessage ==
    /\ session = "message"
    /\ params = NoParams
    /\ err \in [codec : { "encoder", "decoder" }, code : 0 .. MaxCode]
    /\ InitSession

NextMessage == DisplayError

SpecMessage == InitMessage /\ [][NextMessage]_vars

-----------------------------------------------------------------------------
(* Properties *)

IsClose(e) == e.fn \in { "aacEncClose", "aacDecoder_Close" }
IsOpen(e)  == e.fn \in { "aacEncOpen", "aacDecoder_Open" }

Indices(log, fn) == { i \in 1 .. Len(log) : log[i].fn = fn }
ParamIndices(log, param) ==
    { i \in 1 .. Len(log) : log[i].fn = "aacEncoder_SetParam" /\ log[i].param = param }

\* The calls Encoder::new is to make after aacEncOpen when all of them
\* succeed: the function, the parameter and the values allowed for it.
Want(fn, param, values) == [fn |-> fn, param |-> param, values |-> values]

WantedNewCalls(p) ==
    <<Want("aacEncOpen", "", Nat)>>
    \o <<Want("aacEncoder_SetParam", "AOT", Nat)>>
    \o (IF p.bit_rate.kind = "Cbr"
        THEN <<Want("aacEncoder_SetParam", "BITRATE", Nat)>> ELSE <<>>)
    \o <<Want("aacEncoder_SetParam", "BITRATEMODE", Nat),
         Want("aacEncoder_SetParam", "SAMPLERATE", Nat),
         Want("aacEncoder_SetParam", "TRANSMUX",
              IF p.transport = "Raw" THEN {0} ELSE {2}),
         Want("aacEncoder_SetParam", "SBR_MODE", {0}),
         Want("aacEncoder_SetParam", "CHANNELMODE",
              IF p.channels = "Mono" THEN {1} ELSE {2}),
         Want("aacEncEncode", "null", {0})>>

Matches(e, w) == e.fn = w.fn /\ e.param = w.param /\ e.value \in w.values

NewRunning == encPc \in { "alloc", "prime" } \cup ConfigSteps
NewReturnedOk == encPc \in { "live", "dropped" }

\* C1: while no engine call has failed, the calls Encoder::new has made are,
\* position by position, the open call, then AOT, (BITRATE only for Cbr),
\* BITRATEMODE, SAMPLERATE, TRANSMUX (Raw 0, Adts 2), SBR_MODE 0, CHANNELMODE
\* (Mono 1, Stereo 2) and then the one encode call with null arguments; when
\* Encoder::new has returned Ok all of them have been made, in that order, and
\* the null-argument encode call is the only one of its kind and comes before
\* any encode call that carries buffers.
C1_NewCallOrder ==
    (session = "encoder" /\ encPc # "failed") =>
        LET want == WantedNewCalls(params)
        IN  /\ \A i \in 1 .. Min(Len(encLog), Len(want)) :
                 Matches(encLog[i], want[i]) /\ encLog[i].ret = AACENC_OK
            /\ NewRunning => Len(encLog) < Len(want)
            /\ NewReturnedOk =>
                 /\ Len(encLog) >= Len(want)
                 /\ { i \in Indices(encLog, "aacEncEncode") :
                        encLog[i].param = "null" } = { Len(want) }
                 /\ \A i \in Indices(encLog, "aacEncEncode") :
                        encLog[i].param = "bufs" => i > Len(want)

\* Encoder::new has just returned Ok for a constant-rate ADTS stereo encoder.
C1_Witness ==
    /\ encPc = "live" /\ nOps = 0 /\ encRet.op = "new" /\ encRet.ok
    /\ params.bit_rate.kind = "Cbr"
    /\ params.transport = "Adts"
    /\ params.channels = "Stereo"
    /\ Len(encLog) = 9

\* the number of a variable-rate tier
TierNumber(kind) ==
    CASE kind = "VbrVeryLow"  -> 1
      [] kind = "VbrLow"      -> 2
      [] kind = "VbrMedium"   -> 3
      [] kind = "VbrHigh"     -> 4
      [] kind = "VbrVeryHigh" -> 5

PastBitrateMode ==
    encPc \in { "SAMPLERATE", "TRANSMUX", "SBR_MODE", "CHANNELMODE", "prime",
                "live", "dropped" }

\* C2: with Cbr(n) every BITRATE call carries n, a BITRATE call that succeeded
\* is immediately followed by the BITRATEMODE call, and every BITRATEMODE call
\* carries 0 and comes immediately after the BITRATE call; with a
\* variable-rate tier there is no BITRATE call and every BITRATEMODE call
\* carries the tier's number 1..5.  Once Encoder::new is past the bit-rate
\* statements exactly these calls have been made.
C2_BitrateCalls ==
    session = "encoder" =>
        LET rates == ParamIndices(encLog, "BITRATE")
            modes == ParamIndices(encLog, "BITRATEMODE")
            rate  == params.bit_rate
        IN  IF rate.kind = "Cbr"
            THEN /\ \A i \in rates :
                      /\ encLog[i].value = rate.rate
                      /\ (encLog[i].ret = AACENC_OK /\ encPc # "BITRATEMODE")
                           => i + 1 \in modes
                 /\ \A i \in modes :
                      encLog[i].value = 0 /\ i - 1 \in rates
                 /\ PastBitrateMode =>
                      Cardinality(rates) = 1 /\ Cardinality(modes) = 1
            ELSE /\ rates = {}
                 /\ \A i \in modes : encLog[i].value = TierNumber(rate.kind)
                 /\ PastBitrateMode => Cardinality(modes) = 1

\* Encoder::new for Cbr(128000) has made both bit-rate calls and gone on.
C2_Witness ==
    /\ params.bit_rate = [kind |-> "Cbr", rate |-> 128000]
    /\ encPc = "SAMPLERATE"
    /\ ParamIndices(encLog, "BITRATE") = {3}
    /\ ParamIndices(encLog, "BITRATEMODE") = {4}

\* the engine calls other than the close call
NotClose(e) == ~IsClose(e)
CallsMade(log) == SelectSeq(log, NotClose)

\* C3: Encoder::new goes on only while every call so far has succeeded; when
\* it returns Err, the call that failed is the last configuration call made
\* (all before it succeeded, none of the later steps was made), the error
\* carries exactly that call's status, and no Encoder exists: no operation of
\* an Encoder has been or can be performed.
C3_FailureShortCircuits ==
    session = "encoder" =>
        LET calls == CallsMade(encLog)
            want  == WantedNewCalls(params)
        IN  /\ NewRunning => \A i \in 1 .. Len(calls) : calls[i].ret = AACENC_OK
            /\ NewReturnedOk =>
                 \A i \in 1 .. Len(want) : calls[i].ret = AACENC_OK
            /\ encPc = "failed" =>
                 /\ encRet.op = "new" /\ ~encRet.ok
                 /\ Len(calls) >= 1 /\ Len(calls) <= Len(want)
                 /\ calls[Len(calls)].ret # AACENC_OK
                 /\ encRet.code = calls[Len(calls)].ret
                 /\ \A i \in 1 .. Len(calls) - 1 : calls[i].ret = AACENC_OK
                 /\ \A i \in 1 .. Len(calls) : Matches(calls[i], want[i])
                 /\ nOps = 0
                 /\ ~ENABLED (EncoderInfo \/ EncoderEncode(FewLens) \/ EncoderDrop)
            /\ (encRet.op = "new" /\ ~encRet.ok) => encPc = "failed"

\* Encoder::new failed at the TRANSMUX step with AACENC_INVALID_CONFIG.
C3_Witness ==
    /\ encPc = "failed"
    /\ encRet = RetErr("new", AACENC_INVALID_CONFIG)
    /\ \E i \in ParamIndices(encLog, "TRANSMUX") : encLog[i].ret = AACENC_INVALID_CONFIG
    /\ ParamIndices(encLog, "SBR_MODE") = {}

\* Encoder::new has returned an error after the handle was opened
FailedAfterOpen == session = "encoder" /\ encPc = "failed" /\ encPtr # NULL

\* C4 as stated: when Encoder::new returns the error of a configuration step,
\* the handle has not been closed.
C4_HandleLeftOpen ==
    FailedAfterOpen => Indices(encLog, "aacEncClose") = {}

\* C4 amended: when Encoder::new returns the error of a configuration step,
\* the handle has been closed: aacEncClose was called exactly once, right
\* after the call that failed and as the last engine call.
C4_ClosedOnFailure ==
    FailedAfterOpen =>
        /\ Indices(encLog, "aacEncClose") = { Len(encLog) }
        /\ Len(encLog) >= 3
        /\ encLog[Len(encLog) - 1].ret # AACENC_OK
        /\ encLog[Len(encLog) - 1].ret = encRet.code

\* Encoder::new failed at the priming call, after the whole configuration.
C4_Witness ==
    /\ FailedAfterOpen
    /\ encLog[Len(encLog) - 1].fn = "aacEncEncode"
    /\ encLog[Len(encLog)].fn = "aacEncClose"

\* C5: a session's handle sees exactly one open call, which is the first call;
\* at most one close call, which is then the last call (no engine call after
\* it); and exactly one close call once the session has ended, be it by a
\* configuration that failed part-way or by dropping the Encoder or Decoder.
OneOpenOneClose(log, open, close, ended) ==
    /\ Indices(log, open) = {1}
    /\ Cardinality(Indices(log, close)) <= 1
    /\ \A i \in Indices(log, close) : i = Len(log)
    /\ ended <=> Indices(log, close) # {}

C5_OneOpenOneClose ==
    /\ (session = "encoder" /\ encPtr # NULL) =>
          OneOpenOneClose(encLog, "aacEncOpen", "aacEncClose",
                          encPc \in { "failed", "dropped" })
    /\ (session = "decoder" /\ decState # "none") =>
          OneOpenOneClose(decLog, "aacDecoder_Open", "aacDecoder_Close",
                          decState = "dropped")

\* A Decoder was used and then dropped.
C5_Witness ==
    /\ decState = "dropped"
    /\ nOps >= 1
    /\ Len(decLog) >= 3

\* C6 as stated: a live Encoder or Decoder never holds a null handle.
C6_NoNullHandleLive ==
    /\ (session = "encoder" /\ encPc = "live") => encPtr # NULL
    /\ (session = "decoder" /\ decState = "live") => decHandle # NULL

\* the status codes of the encoder (fdk-aac-sys Error)
DocumentedEncoderCodes ==
    {
      AACENC_OK, AACENC_INVALID_HANDLE, AACENC_MEMORY_ERROR,
      AACENC_UNSUPPORTED_PARAMETER, AACENC_INVALID_CONFIG, AACENC_INIT_ERROR,
      AACENC_INIT_AAC_ERROR, AACENC_INIT_SBR_ERROR, AACENC_INIT_TP_ERROR,
      AACENC_INIT_META_ERROR, AACENC_INIT_MPS_ERROR, AACENC_ENCODE_ERROR,
      AACENC_ENCODE_EOF
    }

\* the status codes of the decoder that dec.rs names
DocumentedDecoderCodes ==
    {
      AAC_DEC_OK, AAC_DEC_OUT_OF_MEMORY, AAC_DEC_UNKNOWN,
      aac_dec_sync_error_start, AAC_DEC_TRANSPORT_SYNC_ERROR,
      AAC_DEC_NOT_ENOUGH_BITS, aac_dec_init_error_start,
      AAC_DEC_INVALID_HANDLE, AAC_DEC_UNSUPPORTED_AOT,
      AAC_DEC_UNSUPPORTED_FORMAT, AAC_DEC_UNSUPPORTED_ER_FORMAT,
      AAC_DEC_UNSUPPORTED_EPCONFIG, AAC_DEC_UNSUPPORTED_MULTILAYER,
      AAC_DEC_UNSUPPORTED_CHANNELCONFIG, AAC_DEC_UNSUPPORTED_SAMPLINGRATE,
      AAC_DEC_INVALID_SBR_CONFIG, AAC_DEC_SET_PARAM_FAIL,
      AAC_DEC_NEED_TO_RESTART, AAC_DEC_OUTPUT_BUFFER_TOO_SMALL,
      aac_dec_decode_error_start, AAC_DEC_TRANSPORT_ERROR,
      AAC_DEC_PARSE_ERROR, AAC_DEC_UNSUPPORTED_EXTENSION_PAYLOAD,
      AAC_DEC_DECODE_FRAME_ERROR, AAC_DEC_CRC_ERROR,
      AAC_DEC_INVALID_CODE_BOOK, AAC_DEC_UNSUPPORTED_PREDICTION,
      AAC_DEC_UNSUPPORTED_CCE, AAC_DEC_UNSUPPORTED_LFE,
      AAC_DEC_UNSUPPORTED_GAIN_CONTROL_DATA, AAC_DEC_UNSUPPORTED_SBA,
      AAC_DEC_TNS_READ_ERROR, AAC_DEC_RVLC_ERROR,
      aac_dec_anc_data_error_start, AAC_DEC_ANC_DATA_ERROR,
      AAC_DEC_TOO_SMALL_ANC_BUFFER, AAC_DEC_TOO_MANY_ANC_ELEMENTS
    }

\* C7: message() yields a text for every status code: for a documented code a
\* non-empty text that no other documented code of the same codec has, for
\* any other code "Unknown error"; never the empty text.
C7_MessageTotal ==
    (session = "message" /\ shown # NoText) =>
        LET enc  == err.codec = "encoder"
            docs == IF enc THEN DocumentedEncoderCodes ELSE DocumentedDecoderCodes
        IN  /\ shown # ""
            /\ err.code \in docs =>
                 \A d \in docs \ { err.code } :
                    shown # (IF enc THEN EncoderMessage(d) ELSE DecoderMessage(d))
            /\ err.code \notin docs => shown = "Unknown error"

\* A documented decoder code has been formatted.
C7_Witness ==
    /\ err = [codec |-> "decoder", code |-> AAC_DEC_NOT_ENOUGH_BITS]
    /\ shown = "The input buffer ran out of bits."

EncoderOps == { "info", "encode" }
DecoderOps == { "config_raw", "set_min_output_channels",
                "set_max_output_channels", "fill", "decode_frame" }

\* the engine function a wrapper operation calls
EngineFn(op) ==
    CASE op = "info"        -> "aacEncInfo"
      [] op = "encode"      -> "aacEncEncode"
      [] op = "config_raw"  -> "aacDecoder_ConfigRaw"
      [] op \in { "set_min_output_channels", "set_max_output_channels" }
                            -> "aacDecoder_SetParam"
      [] op = "fill"        -> "aacDecoder_Fill"
      [] op = "decode_frame" -> "aacDecoder_DecodeFrame"

\* the result matches the status c the engine call returned
ResultOf(ret, c, okCode) ==
    /\ ret.ok <=> c = okCode
    /\ ~ret.ok => ret.code = c

\* C8: after each fallible operation the result is Ok exactly when the status
\* of its engine call is the OK code and otherwise an Err carrying that status
\* unchanged; the operation made that one engine call and no other.
C8_StatusPassedThrough ==
    /\ (session = "encoder" /\ encPc = "live" /\ encRet.op \in EncoderOps) =>
          /\ encLog[Len(encLog)].fn = EngineFn(encRet.op)
          /\ ResultOf(encRet, encLog[Len(encLog)].ret, AACENC_OK)
          /\ Len(encLog) = Len(WantedNewCalls(params)) + nOps
    /\ (session = "decoder" /\ decState = "live" /\ decRet.op \in DecoderOps) =>
          /\ decLog[Len(decLog)].fn = EngineFn(decRet.op)
          /\ ResultOf(decRet, decLog[Len(decLog)].ret, AAC_DEC_OK)
          /\ Len(decLog) = 1 + nOps

\* Decoder::fill returned the engine's AAC_DEC_NOT_ENOUGH_BITS.
C8_Witness ==
    /\ decState = "live"
    /\ decRet = DecRetErr("fill", AAC_DEC_NOT_ENOUGH_BITS)
    /\ decLog[Len(decLog)].ret = AAC_DEC_NOT_ENOUGH_BITS

\* C9: the output size declared to the engine never exceeds the length L of
\* the output slice, and a successful Encoder::encode returns
\* input_consumed <= N and output_size <= L, for lengths on both sides of the
\* c_int limit.
C9_EncodeWithinSlices ==
    (session = "encoder" /\ encCall.made) =>
        /\ encCall.outDesc.bufSizes[1] <= encCall.L
        /\ (encRet.op = "encode" /\ encRet.ok) =>
              /\ encRet.input_consumed <= encCall.N
              /\ encRet.output_size <= encCall.L

\* Slices longer than the c_int limit were encoded with success, the engine
\* consuming and producing as much as it was allowed to.
C9_Witness ==
    /\ encRet.op = "encode" /\ encRet.ok
    /\ encCall.N = U32Max + 1
    /\ encCall.L = U32Max + 3
    /\ encRet.input_consumed = I32Max
    /\ encRet.output_size = 2

ArraysMatchCount(desc) ==
    /\ Len(desc.bufs) = desc.numBufs
    /\ Len(desc.bufferIdentifiers) = desc.numBufs
    /\ Len(desc.bufSizes) = desc.numBufs
    /\ Len(desc.bufElSizes) = desc.numBufs

\* C11: every engine call of Encoder::encode carries a descriptor of exactly
\* one entry on each side, never a null or empty one: the input entry is the
\* input slice as audio data with element size 2, the output entry is the
\* output slice as bitstream data with element size 1, and in both
\* descriptors the four arrays have numBufs = 1 entries.  The call is logged
\* as one carrying buffers.
C11_OneEntryPerDescriptor ==
    (session = "encoder" /\ encCall.made) =>
        /\ encCall.inDesc # NullDesc /\ encCall.outDesc # NullDesc
        /\ encCall.inDesc.numBufs = 1 /\ encCall.outDesc.numBufs = 1
        /\ ArraysMatchCount(encCall.inDesc)
        /\ ArraysMatchCount(encCall.outDesc)
        /\ encCall.inDesc.bufs = <<"input">>
        /\ encCall.inDesc.bufferIdentifiers = <<IN_AUDIO_DATA>>
        /\ encCall.inDesc.bufElSizes = <<2>>
        /\ encCall.outDesc.bufs = <<"output">>
        /\ encCall.outDesc.bufferIdentifiers = <<OUT_BITSTREAM_DATA>>
        /\ encCall.outDesc.bufElSizes = <<1>>
        /\ \A i \in Indices(encLog, "aacEncEncode") :
              i > Len(WantedNewCalls(params)) => encLog[i].param = "bufs"

\* Encoder::encode was called on non-empty slices and the engine call made.
C11_Witness ==
    /\ encCall.made
    /\ encCall.N = 2 /\ encCall.L = 2
    /\ encRet.op = "encode"
    /\ encLog[Len(encLog)] = Call("aacEncEncode", "bufs", 0, encCall.status)

\* C12 as stated: a successful Decoder::fill returns the number of bytes the
\* engine consumed, the length it was handed minus the bytes it left, which
\* is at most N and at most the length handed to the engine.
C12_FillReturnsConsumed ==
    (session = "decoder" /\ decState = "live" /\ decRet.op = "fill" /\ decRet.ok) =>
        /\ decRet.value = decCall.handed - decCall.bytes_valid
        /\ decRet.value <= decCall.N
        /\ decRet.value <= decCall.handed

\* C14 as stated: in every engine call of Encoder::encode the size entries of
\* the descriptors are sizes in bytes: the input entry's is the sample count
\* handed over times 2, the output entry's is the length of the output slice.
C14_BufSizesInBytes ==
    (session = "encoder" /\ encCall.made) =>
        /\ encCall.inDesc.bufSizes[1] =
              encCall.inArgs.numInSamples * encCall.inDesc.bufElSizes[1]
        /\ encCall.outDesc.bufSizes[1] = encCall.L

-----------------------------------------------------------------------------
(* A caller feeding a stream to an ADTS Decoder                              *)
(*                                                                         *)
(* The caller loops fill, then decode_frame, over a stream of feedLen bytes *)
(* made of whole frames, supplying each time a slice that starts at the     *)
(* first byte fill has not yet reported as consumed.  The engine keeps the   *)
(* bytes it takes in a buffer of RingCap bytes and decodes a frame when a    *)
(* whole one is buffered.                                                   *)

\* capacity of the engine's internal buffer
RingCap == 2 * FrameLen

\* the chunk the caller supplies when it does not supply all that is left
ChunkLen == FrameLen + 1

\* stream lengths: one to three frames, and the first whole number of frames
\* that no longer fits a c_uint
StreamLens ==
    { FrameLen, 2 * FrameLen, 3 * FrameLen,
      FrameLen * ((U32Max \div FrameLen) + 1) }

\* lengths of the slice the caller supplies with `left` bytes left: one byte,
\* a chunk, or all that is left; nothing once nothing is left
ChunkLens(left) == { Min(1, left), Min(ChunkLen, left), left }

\* bytes aacDecoder_Fill takes of the data_len bytes it is handed
RingTakes(buffered, data_len) == Min(data_len, RingCap - buffered)

\* the length of the pcm slice the caller decodes into
PcmLen == 2 * FrameLen

\* one turn of the loop: Decoder::fill on the next slice of the stream
FeedFill ==
    /\ session = "stream"
    /\ feedPc = "fill"
    /\ \E N \in ChunkLens(feedLen - feedPos) :
         LET data_len    == FillHanded(N)
             k           == RingTakes(ring, data_len)
             bytes_valid == data_len - k
         IN  /\ decLog' = Append(decLog,
                    Call("aacDecoder_Fill", "", data_len, AAC_DEC_OK))
             /\ decCall' = [ op |-> "fill", N |-> N, handed |-> data_len,
                             bytes_valid |-> bytes_valid ]
             /\ decRet' = DecRetOk("fill", FillResult(N, bytes_valid))
             /\ ring' = ring + k
             /\ taken' = taken + k
             /\ feedPos' = feedPos + FillResult(N, bytes_valid)
    /\ feedPc' = "decode"
    /\ UNCHANGED <<session, decState, decHandle, nOps, feedLen, frames>>
    /\ UNCHANGED encVars
    /\ UNCHANGED msgVars
    /\ UNCHANGED thrVars

\* the other turn: Decoder::decode_frame.  The loop ends when the whole stream
\* counts as consumed, the last fill supplied no bytes and no frame is left.
FeedDecodeFrame ==
    /\ session = "stream"
    /\ feedPc = "decode"
    /\ LET c == IF ring >= FrameLen THEN AAC_DEC_OK ELSE AAC_DEC_NOT_ENOUGH_BITS
       IN  /\ decLog' = Append(decLog,
                  Call("aacDecoder_DecodeFrame", "", AsCInt(PcmLen), c))
           /\ decCall' = [ op |-> "decode_frame", N |-> PcmLen,
                           handed |-> AsCInt(PcmLen), bytes_valid |-> 0 ]
           /\ decRet' = IF DecCheck(c).ok THEN DecRetOk("decode_frame", 0)
                        ELSE DecRetErr("decode_frame", DecCheck(c).code)
           /\ ring' = IF c = AAC_DEC_OK THEN ring - FrameLen ELSE ring
           /\ frames' = IF c = AAC_DEC_OK THEN frames + 1 ELSE frames
           /\ feedPc' = IF /\ ~DecCheck(c).ok
                           /\ feedPos = feedLen
                           /\ decCall.op = "fill" /\ decCall.N = 0
                        THEN "done" ELSE "fill"
    /\ UNCHANGED <<session, decState, decHandle, nOps, feedLen, feedPos, taken>>
    /\ UNCHANGED encVars
    /\ UNCHANGED msgVars
    /\ UNCHANGED thrVars

\* A live ADTS Decoder, as Decoder::new leaves it, and a stream to feed it.
InitStream ==
    /\ session = "stream"
    /\ params = NoParams
    /\ err = [codec |-> "none", code |-> 0]
    /\ encPc = "alloc"
    /\ encPtr = NULL
    /\ encLog = <<>>
    /\ encCall = NoCall
    /\ encRet = NoRet
    /\ decState = "live"
    /\ decHandle = HANDLE
    /\ decLog = <<Call("aacDecoder_Open", "TT_MP4_ADTS", 1, HANDLE)>>
    /\ decCall = NoDecCall
    /\ decRet = DecRetOk("new", 0)
    /\ nOps = 0
    /\ shown = NoText
    /\ feedPc = "fill"
    /\ feedLen \in StreamLens
    /\ feedPos = 0
    /\ ring = 0
    /\ taken = 0
    /\ frames = 0
    /\ inFlight = NoThreads

NextStream ==
    \/ FeedFill
    \/ FeedDecodeFrame

\* The caller keeps looping until the loop ends.
SpecStream == InitStream /\ [][NextStream]_vars /\ WF_vars(NextStream)

\* C13 as stated: the loop over a valid stream gets every byte of the stream
\* to the engine and every frame decoded, and at the end of the data a fill
\* with no bytes followed by decode_frame returns NOT_ENOUGH_BITS: when the
\* loop has ended that way, the engine has taken feedLen bytes and decoded
\* all the frames they hold.
C13_StreamFullyDecoded ==
    (session = "stream" /\ feedPc = "done") =>
        /\ decRet = DecRetErr("decode_frame", AAC_DEC_NOT_ENOUGH_BITS)
        /\ taken = feedLen
        /\ frames = feedLen \div FrameLen

\* C13 for streams that fit a c_uint: the loop ends, and with every byte
\* taken and every frame decoded.
C13_ShortStreamsDecoded ==
    (session = "stream" /\ feedLen <= U32Max) =>
        (feedPc = "done" => C13_StreamFullyDecoded)

C13_LoopEnds == <>(feedPc = "done")

-----------------------------------------------------------------------------
(* Threads sharing sessions                                                 *)
(*                                                                         *)
(* Encoder and Decoder are Send and Sync, so any thread may hold a reference *)
(* to any session.  The borrow rules are all that restrains the threads: a   *)
(* method taking &self may run while other threads run &self methods of the  *)
(* same session, a method taking &mut self only while no other thread is in  *)
(* any method of it.  Every method below makes one engine call on the        *)
(* session's native handle and is in flight from its begin to its end.       *)

Threads == { "t1", "t2" }

\* two Encoders and a Decoder, each with a native handle of its own
Sessions == { "e1", "e2", "d1" }

IsEncoder(s) == s \in { "e1", "e2" }

\* engine calls of the methods taking &self
SharedFns(s) ==
    IF IsEncoder(s) THEN { "aacEncEncode", "aacEncInfo" }
    ELSE { "aacDecoder_GetStreamInfo" }

\* engine calls of the methods taking &mut self
ExclusiveFns(s) ==
    IF IsEncoder(s) THEN { }
    ELSE { "aacDecoder_ConfigRaw", "aacDecoder_SetParam",
           "aacDecoder_Fill", "aacDecoder_DecodeFrame" }

\* a thread that is in no engine call
Idle == [ handle |-> "none", fn |-> "none", excl |-> FALSE ]

InCall(s, fn, excl) == [ handle |-> s, fn |-> fn, excl |-> excl ]

\* thread t enters a &self method of a session
ThreadBeginShared(t) ==
    /\ session = "threads"
    /\ inFlight[t] = Idle
    /\ nOps < MaxThreadCalls
    /\ \E s \in Sessions : \E fn \in SharedFns(s) :
         /\ \A u \in Threads \ { t } :
                ~(inFlight[u].handle = s /\ inFlight[u].excl)
         /\ inFlight' = [inFlight EXCEPT ![t] = InCall(s, fn, FALSE)]
    /\ nOps' = nOps + 1
    /\ UNCHANGED <<session, params, err, shown>>
    /\ UNCHANGED encVars
    /\ UNCHANGED <<decState, decHandle, decLog, decCall, decRet>>
    /\ UNCHANGED feedVars

\* thread t enters a &mut self method of a session
ThreadBeginExclusive(t) ==
    /\ session = "threads"
    /\ inFlight[t] = Idle
    /\ nOps < MaxThreadCalls
    /\ \E s \in Sessions : \E fn \in ExclusiveFns(s) :
         /\ \A u \in Threads \ { t } : inFlight[u].handle # s
         /\ inFlight' = [inFlight EXCEPT ![t] = InCall(s, fn, TRUE)]
    /\ nOps' = nOps + 1
    /\ UNCHANGED <<session, params, err, shown>>
    /\ UNCHANGED encVars
    /\ UNCHANGED <<decState, decHandle, decLog, decCall, decRet>>
    /\ UNCHANGED feedVars

\* the engine call of thread t returns
ThreadEndCall(t) ==
    /\ session = "threads"
    /\ inFlight[t] # Idle
    /\ inFlight' = [inFlight EXCEPT ![t] = Idle]
    /\ UNCHANGED <<session, params, err, shown, nOps>>
    /\ UNCHANGED encVars
    /\ UNCHANGED <<decState, decHandle, decLog, decCall, decRet>>
    /\ UNCHANGED feedVars

\* Constructed sessions shared by the threads, no call begun.
InitThreads ==
    /\ session = "threads"
    /\ params = NoParams
    /\ err = [codec |-> "none", code |-> 0]
    /\ encPc = "alloc"
    /\ encPtr = NULL
    /\ encLog = <<>>
    /\ encCall = NoCall
    /\ encRet = NoRet
    /\ decState = "none"
    /\ decHandle = NULL
    /\ decLog = <<>>
    /\ decCall = NoDecCall
    /\ decRet = NoDecRet
    /\ nOps = 0
    /\ shown = NoText
    /\ feedPc = "idle"
    /\ feedLen = 0
    /\ feedPos = 0
    /\ ring = 0
    /\ taken = 0
    /\ frames = 0
    /\ inFlight = [t \in Threads |-> Idle]

NextThreads ==
    \E t \in Threads :
        \/ ThreadBeginShared(t)
        \/ ThreadBeginExclusive(t)
        \/ ThreadEndCall(t)

SpecThreads == InitThreads /\ [][NextThreads]_vars

\* C15 as stated: calls on the same session are serialized; at no time are
\* two threads in an engine call on the same native handle.
C15_SameHandleSerialized ==
    session = "threads" =>
        \A t, u \in Threads :
            (t # u /\ inFlight[t] # Idle /\ inFlight[u] # Idle) =>
                inFlight[t].handle # inFlight[u].handle

\* What the borrow rules do give: a call of a &mut self method overlaps no
\* other call on its handle.
C15_ExclusiveCallsAlone ==
    session = "threads" =>
        \A t, u \in Threads :
            (t # u /\ inFlight[t].excl /\ inFlight[u] # Idle) =>
                inFlight[t].handle # inFlight[u].handle

\* calls on distinct sessions do overlap
C15_DistinctSessionsOverlap ==
    /\ inFlight["t1"] = InCall("e1", "aacEncEncode", FALSE)
    /\ inFlight["t2"] = InCall("d1", "aacDecoder_Fill", TRUE)

====
